---- MODULE Spec2Model ----
\* Model of src/core/lib/transport/service_config.c: reading the load
\* balancing policy name, compiling the "methodConfig" array of a service
\* config JSON tree into a path-keyed table, and looking a path up in it.
EXTENDS Integers, Sequences, FiniteSets, TLC

\* ---------------------------------------------------------------- bounds
MaxNames == 2          \* name objects per "name" array
MaxEntryFields == 2    \* fields per method-config entry
MaxMethods == 2        \* entries per "methodConfig" array
MaxFields == 2         \* top-level fields of the root
MaxNameObjFields == 2  \* fields per name object
MaxLbFields == 3       \* top-level fields of the load-balancing documents
MaxTableKeys == 3      \* keys of the tables looked up directly

\* ------------------------------------------------------------ C values
\* Strings are sequences of one-character strings, so that "/%s/%s" and
\* strrchr are computed and not assumed.
NULL == "NULL"            \* a null key pointer
NullStr == <<"NULL">>     \* a null char*; no string over characters equals it
NullValue == 0            \* a null void* value; live values are 1, 2, ...
NullTable == [null |-> TRUE, entries |-> <<>>]   \* a null grpc_mdstr_hash_table*

SeqsUpTo(S, n) == UNION {[1..k -> S] : k \in 0..n}

\* ---------------------------------------------------------- grpc_json
JString(key, value) == [type |-> "STRING", key |-> key, value |-> value, child |-> <<>>]
JNumber(key) == [type |-> "NUMBER", key |-> key, value |-> <<"1">>, child |-> <<>>]
JObject(key, children) == [type |-> "OBJECT", key |-> key, value |-> NullStr, child |-> children]
JArray(key, children) == [type |-> "ARRAY", key |-> key, value |-> NullStr, child |-> children]

\* ------------------------------------------------- pure functions of the code
RECURSIVE LbScan(_, _, _)
LbScan(fields, f, lb_policy_name) ==
  IF f > Len(fields) THEN lb_policy_name
  ELSE IF fields[f].key = NULL THEN NullStr
  ELSE IF fields[f].key = "loadBalancingPolicy"
       THEN IF lb_policy_name # NullStr THEN NullStr
            ELSE IF fields[f].type # "STRING" THEN NullStr
            ELSE LbScan(fields, f + 1, fields[f].value)
       ELSE LbScan(fields, f + 1, lb_policy_name)

\* A scan that answers at the first "loadBalancingPolicy" field it meets.
RECURSIVE LbScanFirst(_, _)
LbScanFirst(fields, f) ==
  IF f > Len(fields) THEN NullStr
  ELSE IF fields[f].key = NULL THEN NullStr
  ELSE IF fields[f].key = "loadBalancingPolicy"
       THEN IF fields[f].type # "STRING" THEN NullStr ELSE fields[f].value
       ELSE LbScanFirst(fields, f + 1)

LbPolicyFirstMatch(json) ==
  IF json.type # "OBJECT" \/ json.key # NULL THEN NullStr
  ELSE LbScanFirst(json.child, 1)

grpc_service_config_get_lb_policy_name(json) ==
  IF json.type # "OBJECT" \/ json.key # NULL THEN NullStr
  ELSE LbScan(json.child, 1, NullStr)

RECURSIVE CountFrom(_, _)
CountFrom(fields, f) ==
  IF f > Len(fields) THEN 0
  ELSE (IF fields[f].key # NULL /\ fields[f].key = "name" THEN 1 ELSE 0)
       + CountFrom(fields, f + 1)

count_names_in_method_config_json(json) == CountFrom(json.child, 1)

RECURSIVE CountAll(_, _)
CountAll(methods, m) ==
  IF m > Len(methods) THEN 0
  ELSE count_names_in_method_config_json(methods[m]) + CountAll(methods, m + 1)

RECURSIVE NameScan(_, _, _, _)
NameScan(children, c, service_name, method_name) ==
  IF c > Len(children)
  THEN IF service_name = NullStr THEN NullStr
       ELSE <<"/">> \o service_name \o <<"/">>
            \o (IF method_name = NullStr THEN <<"*">> ELSE method_name)
  ELSE IF children[c].key = NULL THEN NullStr
  ELSE IF children[c].type # "STRING" THEN NullStr
  ELSE IF children[c].key = "service"
       THEN IF service_name # NullStr THEN NullStr
            ELSE IF children[c].value = NullStr THEN NullStr
            ELSE NameScan(children, c + 1, children[c].value, method_name)
  ELSE IF children[c].key = "method"
       THEN IF method_name # NullStr THEN NullStr
            ELSE IF children[c].value = NullStr THEN NullStr
            ELSE NameScan(children, c + 1, service_name, children[c].value)
  ELSE NameScan(children, c + 1, service_name, method_name)

parse_json_method_name(json) ==
  IF json.type # "OBJECT" THEN NullStr
  ELSE NameScan(json.child, 1, NullStr, NullStr)

\* gpr_strvec_add over one "name" array: one string per element, null or not.
NamePaths(names) == [n \in 1..Len(names) |-> parse_json_method_name(names[n])]

\* The loop over the entry's fields that fills the strvec; failed is the
\* goto done on a "name" field that is not an array.
RECURSIVE CollectPaths(_, _, _)
CollectPaths(children, c, strs) ==
  IF c > Len(children) THEN [failed |-> FALSE, strs |-> strs]
  ELSE IF children[c].key = NULL THEN CollectPaths(children, c + 1, strs)
  ELSE IF children[c].key = "name"
       THEN IF children[c].type # "ARRAY" THEN [failed |-> TRUE, strs |-> strs]
            ELSE CollectPaths(children, c + 1, strs \o NamePaths(children[c].child))
  ELSE CollectPaths(children, c + 1, strs)

\* strrchr(path_str, '/'): the index of the last '/', 0 when there is none.
RECURSIVE Strrchr(_, _)
Strrchr(s, k) ==
  IF k = 0 THEN 0 ELSE IF s[k] = "/" THEN k ELSE Strrchr(s, k - 1)

\* strchr in place of strrchr: the prefix up to the first '/'.
RECURSIVE Strchr(_, _)
Strchr(s, k) ==
  IF k > Len(s) THEN 0 ELSE IF s[k] = "/" THEN k ELSE Strchr(s, k + 1)

WildcardPathFirstSlash(path_str) ==
  SubSeq(path_str, 1, Strchr(path_str, 1)) \o <<"*">>

WildcardPath(path_str) ==
  SubSeq(path_str, 1, Strrchr(path_str, Len(path_str))) \o <<"*">>

\* ----------------------------------------- collaborators outside this file
\* The caller's factory: it reads the entry's own settings and rejects an
\* entry whose "timeout" is not a string.
create_value(json) ==
  \A c \in 1..Len(json.child) :
    json.child[c].key = "timeout" => json.child[c].type = "STRING"

\* The caller's value behaviour over the heap of values: a value is
\* [config, from, live, destroys]; config names the entry whose factory call
\* made the original, from the value it was copied from (0 for an original).
NewValue(h, config) ==
  Append(h, [config |-> config, from |-> NullValue, live |-> TRUE, destroys |-> 0])

copy_value(h, v) ==
  Append(h, [config |-> h[v].config, from |-> v, live |-> TRUE, destroys |-> 0])

destroy_value(h, v) ==
  [h EXCEPT ![v] = [@ EXCEPT !.live = FALSE, !.destroys = @ + 1]]

\* Interned strings: the number of references held on each string.
MdstrRef(refs, key) ==
  IF key \in DOMAIN refs THEN [refs EXCEPT ![key] = @ + 1] ELSE refs @@ (key :> 1)

MdstrUnref(refs, key) == [refs EXCEPT ![key] = @ - 1]

\* grpc_mdstr_from_string(s): strlen of a null pointer is undefined; the call
\* either faults or reads some string where none is.
grpc_mdstr_from_string(s) ==
  IF s # NullStr THEN {[crashed |-> FALSE, key |-> s]}
  ELSE {[crashed |-> TRUE, key |-> NullStr], [crashed |-> FALSE, key |-> <<>>]}

\* gpr_malloc(n * sizeof(entry)): a request for zero bytes may give a null
\* pointer, a block, or end the process.
gpr_malloc(n) == IF n > 0 THEN {"live"} ELSE {"live", "NULL", "abort"}

\* A store to entries[idx]: past the allocated slots it is undefined; it
\* either faults or lands in the memory after the block.
StoreEntry(index, n) == IF index < n THEN {"stored"} ELSE {"stored", "crash"}

\* grpc_mdstr_hash_table_create(num_entries, entries): the table takes its own
\* reference on each key and its own copy of each value.
RECURSIVE TableHeap(_, _, _, _)
TableHeap(h, mem, n, k) ==
  IF k > n THEN h ELSE TableHeap(copy_value(h, mem[k].value), mem, n, k + 1)

RECURSIVE RefAll(_, _, _, _)
RefAll(refs, mem, n, k) ==
  IF k > n THEN refs ELSE RefAll(MdstrRef(refs, mem[k].key), mem, n, k + 1)

grpc_mdstr_hash_table_create(h, mem, n) ==
  [null |-> FALSE,
   entries |-> [k \in 1..n |-> [key |-> mem[k].key, value |-> Len(h) + k]]]

\* grpc_mdstr_hash_table_get(table, key): the values the table may answer; a
\* key stored twice has no defined winner.
grpc_mdstr_hash_table_get(table, key) ==
  LET hits == {k \in 1..Len(table.entries) : table.entries[k].key = key}
  IN  IF hits = {} THEN {NullValue} ELSE {table.entries[k].value : k \in hits}

\* ------------------------------------------------------------ documents
Svc(s) == JString("service", s)
Meth(m) == JString("method", m)
NameA == JObject(NULL, <<Svc(<<"a">>)>>)                   \* "/a/*"
NameAx == JObject(NULL, <<Svc(<<"a">>), Meth(<<"x">>)>>)   \* "/a/x"
NameNoService == JObject(NULL, <<Meth(<<"x">>)>>)          \* no path

NameElems == {NameA, NameAx, NameNoService}

\* Name objects of every shape: keyless, non-string, repeated, unknown fields.
NameObjFields ==
  {Svc(<<"a">>), Svc(<<"b">>), Meth(<<"x">>), JString(NULL, <<"a">>),
   JNumber("service"), JString("other", <<"a">>)}

NameObjects ==
  {JObject(NULL, fs) : fs \in SeqsUpTo(NameObjFields, MaxNameObjFields)}
  \cup {JString(NULL, <<"a">>)}

Name(elems) == JArray("name", elems)
NameNotArray == JString("name", <<"a">>)
TimeoutOk == JString("timeout", <<"1">>)
TimeoutBad == JNumber("timeout")
Keyless == JString(NULL, <<"a">>)

EntryFields ==
  {Name(<<>>), Name(<<NameA>>), Name(<<NameAx>>), Name(<<NameNoService>>),
   Name(<<NameA, NameAx>>), NameNotArray, TimeoutOk, TimeoutBad, Keyless}

Entry(fields) == JObject(NULL, fields)

\* One entry, varied in depth.
DeepEntries ==
  {Entry(<<Name(elems)>>) : elems \in SeqsUpTo(NameElems, MaxNames)}
  \cup {Entry(<<Name(<<n>>)>>) : n \in NameObjects}
  \cup {Entry(fs) : fs \in SeqsUpTo(EntryFields, MaxEntryFields)}

\* Several entries, each of a few shapes.
WideEntries ==
  {Entry(<<Name(<<NameA>>)>>), Entry(<<Name(<<NameAx>>)>>),
   Entry(<<Name(<<NameA, NameAx>>)>>),
   Entry(<<Name(<<NameA>>), Name(<<NameAx>>)>>),
   Entry(<<Name(<<NameAx>>), Name(<<>>)>>),
   Entry(<<Name(<<>>)>>), Entry(<<Name(<<NameNoService>>)>>),
   Entry(<<NameNotArray>>), Entry(<<Name(<<NameA>>), TimeoutBad>>)}

MethodArrays ==
  {<<e>> : e \in DeepEntries} \cup SeqsUpTo(WideEntries, MaxMethods)

MethodConfig(methods) == JArray("methodConfig", methods)
LbPolicy(v) == JString("loadBalancingPolicy", v)

TopFields ==
  {Keyless, LbPolicy(<<"p">>), JString("methodConfig", <<"a">>),
   MethodConfig(<<>>), MethodConfig(<<Entry(<<Name(<<NameA>>)>>)>>)}

Docs ==
  {JObject(NULL, <<MethodConfig(ms)>>) : ms \in MethodArrays}
  \cup {JObject(NULL, fs) : fs \in SeqsUpTo(TopFields, MaxFields)}
  \cup {JArray(NULL, <<>>), JObject("k", <<>>)}

LbFields ==
  {Keyless, LbPolicy(<<"p">>), LbPolicy(<<"r">>), JNumber("loadBalancingPolicy"),
   MethodConfig(<<>>)}

LbDocs ==
  {JObject(NULL, fs) : fs \in SeqsUpTo(LbFields, MaxLbFields)}
  \cup {JObject("k", fs) : fs \in SeqsUpTo(LbFields, 1)}
  \cup {JArray(NULL, fs) : fs \in SeqsUpTo(LbFields, 1)}

\* Paths looked up in a compiled table.
LookupPaths ==
  {<<"/", "a", "/", "x">>, <<"/", "a", "/", "*">>, <<"/", "a", "/", "y">>,
   <<"/", "b", "/", "x">>, <<"/", "x">>, <<"a">>}

\* ---------------------------------------------------------------- state
VARIABLES
  doc,             \* service_config->json_tree
  pc,              \* where the program is
  field,           \* the top-level field the loop is at (1-based)
  num_entries,     \* slots counted by the pre-pass
  entries,         \* the staging array: [ptr, mem]
  idx,             \* staging index (0-based, as in the code)
  method,          \* the method-config entry the loop is at (1-based)
  method_config,   \* the factory's value for the current entry
  paths,           \* the strvec of the current entry
  i,               \* index into paths (0-based, as in the code)
  success,         \* parse_json_method_config's result
  heap,            \* every value the caller's behaviour has made
  mdrefs,          \* references held on interned strings
  ret,             \* what grpc_service_config_create_method_config_table returned
  path,            \* the path of the last lookup
  value,           \* what the last lookup returned
  lb_policy_name   \* what grpc_service_config_get_lb_policy_name returned

vars ==
  <<doc, pc, field, num_entries, entries, idx, method, method_config, paths, i,
    success, heap, mdrefs, ret, path, value, lb_policy_name>>

NoEntries == [ptr |-> "NULL", mem |-> <<>>]

Idle ==
  /\ field = 0 /\ num_entries = 0 /\ entries = NoEntries /\ idx = 0
  /\ method = 0 /\ method_config = NullValue /\ paths = <<>> /\ i = 0
  /\ success = FALSE /\ path = NullStr /\ value = NullValue
  /\ lb_policy_name = NullStr

Init ==
  /\ doc \in Docs
  /\ pc = "entry"
  /\ heap = <<>> /\ mdrefs = <<>> /\ ret = NullTable
  /\ Idle

\* The current methodConfig field and the current entry.
Methods == doc.child[field].child
Json == Methods[method]

\* return NULL, as written: nothing is released on the way out.
ReturnNull ==
  /\ pc' = "returned"
  /\ ret' = NullTable

\* ------------------------------------------------------------- compilation
\* Lines 188-192: the root check.
CreateTable ==
  /\ pc = "entry"
  /\ IF doc.type # "OBJECT" \/ doc.key # NULL
     THEN ReturnNull /\ UNCHANGED <<field, num_entries, entries>>
     ELSE /\ pc' = "field"
          /\ field' = 1
          /\ num_entries' = 0
          /\ entries' = NoEntries
          /\ ret' = ret
  /\ UNCHANGED <<doc, idx, method, method_config, paths, i, success, heap,
                 mdrefs, path, value, lb_policy_name>>

\* Lines 193-205: one top-level field, up to the allocation of the slots.
ScanField ==
  /\ pc = "field"
  /\ field <= Len(doc.child)
  /\ LET f == doc.child[field] IN
     IF f.key = NULL
     THEN ReturnNull /\ UNCHANGED <<field, num_entries, entries, idx, method>>
     ELSE IF f.key # "methodConfig"
     THEN /\ field' = field + 1
          /\ UNCHANGED <<pc, ret, num_entries, entries, idx, method>>
     ELSE IF entries.ptr # "NULL" \/ f.type # "ARRAY"
     THEN ReturnNull /\ UNCHANGED <<field, num_entries, entries, idx, method>>
     ELSE \E block \in gpr_malloc(num_entries + CountAll(f.child, 1)) :
            /\ num_entries' = num_entries + CountAll(f.child, 1)
            /\ entries' = [ptr |-> IF block = "abort" THEN entries.ptr ELSE block,
                           mem |-> <<>>]
            /\ idx' = 0
            /\ method' = 1
            /\ pc' = IF block = "abort" THEN "aborted" ELSE "method"
            /\ UNCHANGED <<field, ret>>
  /\ UNCHANGED <<doc, method_config, paths, i, success, heap, mdrefs, path,
                 value, lb_policy_name>>

\* Lines 153-154 (and 208-211 when the factory rejects).
ParseCreateValue ==
  /\ pc = "method"
  /\ method <= Len(Methods)
  /\ IF create_value(Json)
     THEN /\ heap' = NewValue(heap, <<field, method>>)
          /\ method_config' = Len(heap) + 1
          /\ success' = FALSE
          /\ pc' = "paths"
          /\ ret' = ret
     ELSE /\ ReturnNull
          /\ method_config' = NullValue
          /\ UNCHANGED <<heap, success>>
  /\ UNCHANGED <<doc, field, num_entries, entries, idx, method, paths, i,
                 mdrefs, path, value, lb_policy_name>>

\* Lines 156-169: the list of paths.
ParseCollectPaths ==
  /\ pc = "paths"
  /\ LET r == CollectPaths(Json.child, 1, <<>>) IN
     /\ paths' = r.strs
     /\ pc' = IF r.failed \/ Len(r.strs) = 0 THEN "done" ELSE "add"
  /\ i' = 0
  /\ UNCHANGED <<doc, field, num_entries, entries, idx, method, method_config,
                 success, heap, mdrefs, ret, path, value, lb_policy_name>>

\* The value a slot takes: its own copy of the entry's value (line 173).
StagedValue(h, mc) == [heap |-> copy_value(h, mc), value |-> Len(h) + 1]

\* Lines 171-177: one entry added.
ParseAddEntry ==
  /\ pc = "add"
  /\ \E k \in grpc_mdstr_from_string(paths[i + 1]),
        st \in StoreEntry(idx, num_entries) :
       IF k.crashed \/ st = "crash"
       THEN /\ pc' = "crashed"
            /\ UNCHANGED <<entries, idx, i, success, heap, mdrefs>>
       ELSE LET sv == StagedValue(heap, method_config) IN
            /\ mdrefs' = MdstrRef(mdrefs, k.key)
            /\ heap' = sv.heap
            /\ entries' = [entries EXCEPT
                 !.mem = [j \in 1..(idx + 1) |->
                            IF j = idx + 1
                            THEN [key |-> k.key, value |-> sv.value]
                            ELSE entries.mem[j]]]
            /\ idx' = idx + 1
            /\ i' = i + 1
            /\ success' = (i + 1 = Len(paths))
            /\ pc' = IF i + 1 = Len(paths) THEN "done" ELSE "add"
  /\ UNCHANGED <<doc, field, num_entries, method, method_config, paths, ret,
                 path, value, lb_policy_name>>

\* The original destroyed on the success path only.
DoneHeapOnSuccess(h, mc, ok) == IF ok THEN destroy_value(h, mc) ELSE h

\* Line 179: the original is destroyed on the way out.
DoneHeap(h, mc, ok) == destroy_value(h, mc)

\* Lines 178-181, and the caller's lines 208-211.
ParseDone ==
  /\ pc = "done"
  /\ heap' = DoneHeap(heap, method_config, success)
  /\ paths' = <<>>
  /\ IF success
     THEN /\ method' = method + 1
          /\ pc' = "method"
          /\ ret' = ret
     ELSE ReturnNull /\ method' = method
  /\ UNCHANGED <<doc, field, num_entries, entries, idx, method_config, i,
                 success, mdrefs, path, value, lb_policy_name>>

\* Line 213, after the last entry.
MethodsDone ==
  /\ pc = "method"
  /\ method > Len(Methods)
  /\ IF idx = num_entries
     THEN pc' = "field" /\ field' = field + 1
     ELSE pc' = "aborted" /\ field' = field
  /\ UNCHANGED <<doc, num_entries, entries, idx, method, method_config, paths,
                 i, success, heap, mdrefs, ret, path, value, lb_policy_name>>

\* A release loop that stops one slot short.
RECURSIVE CleanupHeapShort(_, _, _, _)
CleanupHeapShort(h, mem, n, k) ==
  IF k > n - 1 THEN h
  ELSE CleanupHeapShort(destroy_value(h, mem[k].value), mem, n, k + 1)

\* Lines 221-224: the staged keys and values are released.
RECURSIVE CleanupHeap(_, _, _, _)
CleanupHeap(h, mem, n, k) ==
  IF k > n THEN h ELSE CleanupHeap(destroy_value(h, mem[k].value), mem, n, k + 1)

RECURSIVE CleanupRefs(_, _, _, _)
CleanupRefs(refs, mem, n, k) ==
  IF k > n THEN refs ELSE CleanupRefs(MdstrUnref(refs, mem[k].key), mem, n, k + 1)

\* Lines 216-227: the table is made and the staging released.
Instantiate ==
  /\ pc = "field"
  /\ field > Len(doc.child)
  /\ IF entries.ptr # "NULL"
     THEN /\ ret' = grpc_mdstr_hash_table_create(heap, entries.mem, num_entries)
          /\ heap' = CleanupHeap(TableHeap(heap, entries.mem, num_entries, 1),
                                 entries.mem, num_entries, 1)
          /\ mdrefs' = CleanupRefs(RefAll(mdrefs, entries.mem, num_entries, 1),
                                   entries.mem, num_entries, 1)
          /\ entries' = [entries EXCEPT !.ptr = "freed"]
     ELSE /\ ret' = NullTable
          /\ UNCHANGED <<heap, mdrefs, entries>>
  /\ pc' = "returned"
  /\ UNCHANGED <<doc, field, num_entries, idx, method, method_config, paths, i,
                 success, path, value, lb_policy_name>>

\* ------------------------------------------------------------------ lookup
Fault == -1   \* not a value: the call did not return

\* Lines 230-249: what the lookup may return. A path with no '/' and no exact
\* match makes strrchr return null; the arithmetic on it is undefined and the
\* call does not return.
grpc_method_config_table_get(table, p) ==
  LET exact == grpc_mdstr_hash_table_get(table, p) IN
  (exact \ {NullValue})
  \cup (IF NullValue \notin exact THEN {}
        ELSE IF Strrchr(p, Len(p)) = 0 THEN {Fault}
        ELSE grpc_mdstr_hash_table_get(table, WildcardPath(p)))

Get ==
  /\ pc = "returned"
  /\ ~ret.null
  /\ \E p \in LookupPaths : \E v \in grpc_method_config_table_get(ret, p) :
       /\ path' = p
       /\ IF v = Fault
          THEN value' = NullValue /\ pc' \in {"crashed", "aborted"}
          ELSE value' = v /\ pc' = pc
  /\ UNCHANGED <<doc, field, num_entries, entries, idx, method, method_config,
                 paths, i, success, heap, mdrefs, ret, lb_policy_name>>

Next ==
  \/ CreateTable
  \/ ScanField
  \/ ParseCreateValue
  \/ ParseCollectPaths
  \/ ParseAddEntry
  \/ ParseDone
  \/ MethodsDone
  \/ Instantiate
  \/ Get

Spec == Init /\ [][Next]_vars

\* ------------------------------------------- the load-balancing policy name
\* Lines 94-108.
GetLbPolicyName ==
  /\ pc = "entry"
  /\ lb_policy_name' = grpc_service_config_get_lb_policy_name(doc)
  /\ pc' = "lb_returned"
  /\ UNCHANGED <<doc, field, num_entries, entries, idx, method, method_config,
                 paths, i, success, heap, mdrefs, ret, path, value>>

InitLb ==
  /\ doc \in LbDocs
  /\ pc = "entry"
  /\ heap = <<>> /\ mdrefs = <<>> /\ ret = NullTable
  /\ Idle

NextLb == GetLbPolicyName

SpecLb == InitLb /\ [][NextLb]_vars

\* --------------------------------------------------- lookups in given tables
TableKeys ==
  {<<"/", "a", "/", "x">>, <<"/", "a", "/", "*">>, <<"/", "b", "/", "*">>,
   <<"/", "*">>, <<"a">>, <<"*">>}

RECURSIVE SetToSeq(_)
SetToSeq(S) ==
  IF S = {} THEN <<>>
  ELSE LET x == CHOOSE x \in S : TRUE IN <<x>> \o SetToSeq(S \ {x})

TableOf(keys) ==
  [null |-> FALSE,
   entries |-> [k \in 1..Len(keys) |-> [key |-> keys[k], value |-> k]]]

Tables ==
  {TableOf(SetToSeq(K)) : K \in {K \in SUBSET TableKeys : Cardinality(K) <= MaxTableKeys}}

InitGet ==
  /\ doc = JObject(NULL, <<>>)
  /\ pc = "returned"
  /\ ret \in Tables
  /\ heap = [k \in 1..Len(ret.entries) |->
               [config |-> <<1, k>>, from |-> NullValue, live |-> TRUE, destroys |-> 0]]
  /\ mdrefs = [key \in {ret.entries[k].key : k \in 1..Len(ret.entries)} |-> 1]
  /\ Idle

NextGet == Get

SpecGet == InitGet /\ [][NextGet]_vars

\* ================================================================ claims
\* What the documents say, written without the code's scans.
RootOk(d) == d.type = "OBJECT" /\ d.key = NULL
FieldsKeyed(d) == \A f \in 1..Len(d.child) : d.child[f].key # NULL
FieldsNamed(d, key) == {f \in 1..Len(d.child) : d.child[f].key = key}
TheField(d, key) == d.child[CHOOSE f \in FieldsNamed(d, key) : TRUE]

ValidNameObject(n) ==
  /\ n.type = "OBJECT"
  /\ \A c \in 1..Len(n.child) : n.child[c].key # NULL /\ n.child[c].type = "STRING"
  /\ Cardinality(FieldsNamed(n, "service")) = 1
  /\ Cardinality(FieldsNamed(n, "method")) <= 1

NamedPath(n) ==
  <<"/">> \o TheField(n, "service").value \o <<"/">>
  \o (IF FieldsNamed(n, "method") = {} THEN <<"*">> ELSE TheField(n, "method").value)

\* The name objects of an entry: <<field, position>>.
NamesOfEntry(e) ==
  UNION {{<<c, n>> : n \in 1..Len(e.child[c].child)} : c \in FieldsNamed(e, "name")}
NumNames(e) == Cardinality(NamesOfEntry(e))
NameFieldsAreArrays(e) == \A c \in FieldsNamed(e, "name") : e.child[c].type = "ARRAY"

EntryValid(e) ==
  /\ create_value(e)
  /\ NameFieldsAreArrays(e)
  /\ NumNames(e) >= 1
  /\ \A cn \in NamesOfEntry(e) : ValidNameObject(e.child[cn[1]].child[cn[2]])

EntryRejected(e) == ~create_value(e) \/ ~NameFieldsAreArrays(e) \/ NumNames(e) = 0

\* The entries of a document, <<field, method>>, and its name objects.
EntriesOf(d) ==
  UNION {{<<f, m>> : m \in 1..Len(d.child[f].child)} :
           f \in {g \in FieldsNamed(d, "methodConfig") : d.child[g].type = "ARRAY"}}
EntryAt(d, fm) == d.child[fm[1]].child[fm[2]]
NamesOf(d) ==
  UNION {{<<fm, cn>> : cn \in NamesOfEntry(EntryAt(d, fm))} : fm \in EntriesOf(d)}
NameAt(d, x) == EntryAt(d, x[1]).child[x[2][1]].child[x[2][2]]

ValidDoc(d) ==
  /\ RootOk(d) /\ FieldsKeyed(d)
  /\ Cardinality(FieldsNamed(d, "methodConfig")) <= 1
  /\ \A f \in FieldsNamed(d, "methodConfig") : d.child[f].type = "ARRAY"
  /\ \A fm \in EntriesOf(d) : EntryValid(EntryAt(d, fm))
  /\ \A x, y \in NamesOf(d) : x # y => NamedPath(NameAt(d, x)) # NamedPath(NameAt(d, y))

\* What the heap and the references hold.
Values == 1..Len(heap)
Originals == {v \in Values : heap[v].from = NullValue}
CopiesOf(v) == {w \in Values : heap[w].from = v}
TableValues == {ret.entries[k].value : k \in 1..Len(ret.entries)}
StagedValues == {entries.mem[k].value : k \in 1..Len(entries.mem)}
NoLiveValues == \A v \in Values : ~heap[v].live
NoKeyRefs == \A key \in DOMAIN mdrefs : mdrefs[key] = 0
InParse == pc \in {"paths", "add", "done"}
CompileFaulted == pc \in {"crashed", "aborted"} /\ ret.null

\* C1: for a valid document that names at least one path, compilation returns
\* a table, and the lookup of each named path returns a live value made from
\* the factory value of the entry that named the path.
C1_NamedPathsResolve ==
  (ValidDoc(doc) /\ NamesOf(doc) # {}) =>
    /\ ~CompileFaulted
    /\ pc = "returned" =>
         /\ ~ret.null
         /\ \A x \in NamesOf(doc) :
              \A v \in grpc_method_config_table_get(ret, NamedPath(NameAt(doc, x))) :
                v \in Values /\ heap[v].live /\ heap[v].config = x[1]

\* C2: when an entry is rejected (factory rejection, "name" not an array, no
\* name objects) the result is a rejection and, at the return, no value is
\* live, no key reference is held and the staging array is released.
C2_RejectionReleasesStaging ==
  (pc = "returned" /\ RootOk(doc)
     /\ \E fm \in EntriesOf(doc) : EntryRejected(EntryAt(doc, fm))) =>
    /\ ret.null
    /\ NoLiveValues
    /\ NoKeyRefs
    /\ entries.ptr # "live"

\* C4: when a name object of the document is invalid, compilation does not
\* fault, no staged key comes from anything but a valid name object, and no
\* table is returned.
C4_InvalidNameRejected ==
  (RootOk(doc) /\ \E x \in NamesOf(doc) : ~ValidNameObject(NameAt(doc, x))) =>
    /\ ~CompileFaulted
    /\ \A k \in 1..Len(entries.mem) :
         \E x \in NamesOf(doc) :
           /\ ValidNameObject(NameAt(doc, x))
           /\ entries.mem[k].key = NamedPath(NameAt(doc, x))
    /\ pc = "returned" => ret.null

\* C5: a valid root with no "methodConfig" field compiles to an empty table,
\* which is not the null result of a rejection.
C5_NoMethodConfigGivesEmptyTable ==
  (pc = "returned" /\ RootOk(doc) /\ FieldsKeyed(doc)
     /\ FieldsNamed(doc, "methodConfig") = {}) =>
    /\ ret # NullTable
    /\ ~ret.null /\ ret.entries = <<>>

\* C7: a root with more than one "methodConfig" field, or with a
\* "methodConfig" that is not an array, is rejected: no table is returned.
C7_DuplicateMethodConfigRejected ==
  (pc = "returned"
     /\ \/ Cardinality(FieldsNamed(doc, "methodConfig")) > 1
        \/ \E f \in FieldsNamed(doc, "methodConfig") : doc.child[f].type # "ARRAY") =>
    ret.null

\* C8: while the entries of a methodConfig array whose entries all compile are
\* staged, the staging index stays below the number of slots counted by the
\* pre-pass, and equals it after the last entry.
C8_CountMatchesStaged ==
  ((InParse \/ pc = "method") /\ \A m \in 1..Len(Methods) : EntryValid(Methods[m])) =>
    /\ pc = "add" => idx < num_entries
    /\ (pc = "method" /\ method > Len(Methods)) => idx = num_entries

\* What the lookup is to return, written without strrchr.
HasSlash(p) == \E k \in 1..Len(p) : p[k] = "/"
StoredUnder(t, key) ==
  {t.entries[k].value : k \in {j \in 1..Len(t.entries) : t.entries[j].key = key}}
ServiceWildcard(p) ==
  LET last == CHOOSE k \in 1..Len(p) :
                p[k] = "/" /\ \A j \in (k + 1)..Len(p) : p[j] # "/"
  IN  [k \in 1..(last + 1) |-> IF k <= last THEN p[k] ELSE "*"]
ExpectedLookup(t, p) ==
  IF StoredUnder(t, p) # {} THEN StoredUnder(t, p)
  ELSE IF StoredUnder(t, ServiceWildcard(p)) # {} THEN StoredUnder(t, ServiceWildcard(p))
  ELSE {NullValue}

\* C3: for a path with a '/', the lookup returns the value stored under the
\* path itself when there is one, else the value stored under the path's
\* prefix up to and including its last '/' followed by '*', else nothing; it
\* does not fault and leaves the table, the values and the references as
\* they were.
C3_LookupExactThenServiceWildcard ==
  [][HasSlash(path') =>
       /\ pc' = pc
       /\ value' \in ExpectedLookup(ret, path')
       /\ ret' = ret /\ heap' = heap /\ mdrefs' = mdrefs]_vars

C3_Witness ==
  /\ pc = "returned"
  /\ path = <<"/", "a", "/", "y">>
  /\ StoredUnder(ret, <<"/", "a", "/", "x">>) # {}
  /\ StoredUnder(ret, <<"/", "*">>) # {}
  /\ value # NullValue
  /\ StoredUnder(ret, <<"/", "a", "/", "*">>) = {value}

\* What the policy name is to be, written without the scan.
ExpectedLbPolicyName(d) ==
  IF /\ RootOk(d) /\ FieldsKeyed(d)
     /\ Cardinality(FieldsNamed(d, "loadBalancingPolicy")) = 1
     /\ TheField(d, "loadBalancingPolicy").type = "STRING"
  THEN TheField(d, "loadBalancingPolicy").value
  ELSE NullStr

\* C6: the policy name returned is the value of "loadBalancingPolicy" when
\* the root is a keyless object, every top-level field has a key, and the
\* field occurs exactly once with string type; else nothing is returned, be it
\* for a second occurrence, a value that is no string, or a keyless field
\* before or after it, or because the field never occurs.
C6_LbPolicyName ==
  pc = "lb_returned" => lb_policy_name = ExpectedLbPolicyName(doc)

C6_Witness ==
  /\ pc = "lb_returned"
  /\ RootOk(doc)
  /\ Len(doc.child) = 2
  /\ doc.child[1].key = "loadBalancingPolicy" /\ doc.child[1].type = "STRING"
  /\ doc.child[2].key = NULL
  /\ lb_policy_name = NullStr

\* The copies an entry's original has once parse_json_method_config is over:
\* one per name object when the entry was staged, none when it was rejected.
CopiesDue(e) == IF NameFieldsAreArrays(e) THEN NumNames(e) ELSE 0

\* C9: every original comes from an entry the factory accepted, one per
\* entry; while its entry is being processed it is live and not destroyed;
\* once parse_json_method_config has returned, with success or not, it has
\* been destroyed exactly once, and all the copies for its entry's paths were
\* made before that.
C9_OriginalDestroyedOnce ==
  /\ \A v \in Originals :
       /\ create_value(EntryAt(doc, heap[v].config))
       /\ \A w \in Originals : w # v => heap[w].config # heap[v].config
       /\ IF InParse /\ v = method_config
          THEN heap[v].live /\ heap[v].destroys = 0
          ELSE IF CompileFaulted /\ pc = "crashed" /\ v = method_config
          THEN heap[v].destroys = 0
          ELSE /\ ~heap[v].live /\ heap[v].destroys = 1
               /\ Cardinality(CopiesOf(v)) = CopiesDue(EntryAt(doc, heap[v].config))
  /\ (pc = "done" /\ success) =>
       Cardinality(CopiesOf(method_config)) = NumNames(Json)
  /\ (pc = "done" /\ ~success) => CopiesOf(method_config) = {}

C9_Witness ==
  /\ pc = "returned" /\ ret.null
  /\ \E v, w \in Originals :
       /\ Cardinality(CopiesOf(v)) >= 2 /\ heap[v].destroys = 1
       /\ CopiesOf(w) = {} /\ heap[w].destroys = 1

\* C10: the staged slots hold pairwise different values, each a copy of an
\* original and none the original itself, one copy per path of the entry; and
\* when a table is returned the staging array is released, every original and
\* every staged copy has been destroyed exactly once, the live values are the
\* table's own, one per named path and pairwise different, and the only key
\* references left are the table's.
C10_OwnershipBalance ==
  /\ \A j, k \in 1..Len(entries.mem) :
       j # k => entries.mem[j].value # entries.mem[k].value
  /\ \A k \in 1..Len(entries.mem) :
       /\ entries.mem[k].value \in Values \ Originals
       /\ heap[entries.mem[k].value].from \in Originals
  /\ (pc = "done" /\ success) =>
       /\ Cardinality(CopiesOf(method_config)) = NumNames(Json)
       /\ CopiesOf(method_config) \subseteq StagedValues
  /\ (pc = "returned" /\ ~ret.null) =>
       /\ entries.ptr = "freed"
       /\ \A v \in Values : heap[v].live <=> v \in TableValues
       /\ \A v \in Values \ TableValues : heap[v].destroys = 1
       /\ \A v \in TableValues : heap[v].destroys = 0
       /\ Cardinality(TableValues) = Len(ret.entries)
       /\ Len(ret.entries) = Cardinality(NamesOf(doc))
       /\ \A key \in DOMAIN mdrefs :
            mdrefs[key] = Cardinality({k \in 1..Len(ret.entries) : ret.entries[k].key = key})

C10_Witness ==
  /\ pc = "returned" /\ ~ret.null
  /\ \E j, k \in 1..Len(ret.entries) :
       /\ j # k
       /\ heap[heap[ret.entries[j].value].from].from
            = heap[heap[ret.entries[k].value].from].from

====
